---- MODULE Spec2Model ----
(***************************************************************************)
(* A model of tools/generate-toc.py (TOCGenerator and main) and of         *)
(* tools/update-stats.py.  Text is modelled character by character: a      *)
(* Python str is a sequence of one-character strings, and every regular    *)
(* expression of the source is an operator that computes what Python's re  *)
(* module computes for it.                                                 *)
(***************************************************************************)
EXTENDS Integers, Sequences, FiniteSets, TLC

VARIABLES
    a_title, a_anchor, a_anchor2, a_pc,      \* anchor generator: title, slug, slug of the slug
    e_content, e_headers, e_pc,              \* header extractor: text, extracted headers
    t_headers, t_max_depth, t_min_depth, t_toc, t_pc,  \* renderer: arguments, rendered block
    f_content, f_mode,                       \* one markdown file: its text, its permissions
    f_insert_after,                          \* --insert-after of the command line
    f_log,                                   \* the update_file_toc calls made on the file
    b_kind, b_files, b_insert_after,         \* main: what the path is, the markdown files, the flag
    b_pc, b_next, total_count, success_count,
    b_calls,                                 \* main: the update_file_toc calls, in order
    b_printed, b_exit,                       \* main: what it printed, its exit status
    s_quick, s_guides,                       \* update-stats: quick-reference/*.md, detailed-guides/**/*.md
    s_readme, s_readme_mode,                 \* update-stats: README.md
    s_pc, s_printed                          \* update-stats: last run's fate and output

anchorVars == <<a_title, a_anchor, a_anchor2, a_pc>>

extractVars == <<e_content, e_headers, e_pc>>

tocVars == <<t_headers, t_max_depth, t_min_depth, t_toc, t_pc>>

fileVars == <<f_content, f_mode, f_insert_after, f_log>>

batchVars ==
    <<b_kind, b_files, b_insert_after, b_pc, b_next, total_count, success_count,
      b_calls, b_printed, b_exit>>

statsVars == <<s_quick, s_guides, s_readme, s_readme_mode, s_pc, s_printed>>

vars == <<anchorVars, extractVars, tocVars, fileVars, batchVars, statsVars>>

\* what each tool leaves alone: the state of the others
notAnchorVars == <<extractVars, tocVars, fileVars, batchVars, statsVars>>

notExtractVars == <<anchorVars, tocVars, fileVars, batchVars, statsVars>>

notTocVars == <<anchorVars, extractVars, fileVars, batchVars, statsVars>>

notFileVars == <<anchorVars, extractVars, tocVars, batchVars, statsVars>>

notBatchVars == <<anchorVars, extractVars, tocVars, fileVars, statsVars>>

notStatsVars == <<anchorVars, extractVars, tocVars, fileVars, batchVars>>

(***************************************************************************)
(* Characters and character classes (Python str, ASCII range).             *)
(***************************************************************************)
UpperCase ==
    <<"A","B","C","D","E","F","G","H","I","J","K","L","M",
      "N","O","P","Q","R","S","T","U","V","W","X","Y","Z">>

LowerCase ==
    <<"a","b","c","d","e","f","g","h","i","j","k","l","m",
      "n","o","p","q","r","s","t","u","v","w","x","y","z">>

Digits == {"0","1","2","3","4","5","6","7","8","9"}

SetOf(s) == {s[i] : i \in DOMAIN s}

IsUpper(c) == c \in SetOf(UpperCase)

IsLetter(c) == c \in SetOf(UpperCase) \cup SetOf(LowerCase)

\* \w of a Python str pattern
IsWord(c) == IsLetter(c) \/ c \in Digits \/ c = "_"

\* \s of a Python str pattern
IsSpace(c) == c \in {" ", "\t", "\n", "\r", "\f"}

IsHyphen(c) == c = "-"

\* str.lower() on one character
LowerChar(c) ==
    IF IsUpper(c) THEN LowerCase[CHOOSE i \in DOMAIN UpperCase : UpperCase[i] = c]
    ELSE c

\* str.lower()
Lower(s) == [i \in DOMAIN s |-> LowerChar(s[i])]

IsHash(c) == c = "#"

\* the character classes the patterns of the source name
InClass(cls, c) ==
    CASE cls = "\\s" -> IsSpace(c)
      [] cls = "-" -> IsHyphen(c)
      [] cls = "#" -> IsHash(c)
      [] cls = " " -> c = " "
      [] cls = "# " -> c = "#" \/ c = " "
      [] cls = "\\w\\s-" -> IsWord(c) \/ IsSpace(c) \/ IsHyphen(c)
      [] cls = "\\w\\s" -> IsWord(c) \/ IsSpace(c)

(***************************************************************************)
(* Generic pieces of re and str used by the source.                        *)
(***************************************************************************)
Indices(s) == [i \in 1..Len(s) |-> i]

\* re.sub(r'[^...]', '', s): delete every character outside the class
DeleteNotIn(s, cls) == SelectSeq(s, LAMBDA c : InClass(cls, c))

\* re.sub(r'C+', rep, s): every maximal run of class C becomes the one character rep
SubRuns(s, cls, rep) ==
    LET first == SelectSeq(Indices(s),
                   LAMBDA i : (~InClass(cls, s[i])) \/ i = 1 \/ ~InClass(cls, s[i-1]))
    IN [k \in 1..Len(first) |-> IF InClass(cls, s[first[k]]) THEN rep ELSE s[first[k]]]

\* str.strip(chars) / str.strip(): drop leading and trailing characters of the class
StripClass(s, cls) ==
    LET keep == {i \in DOMAIN s : ~InClass(cls, s[i])}
    IN IF keep = {} THEN <<>>
       ELSE LET lo == CHOOSE i \in keep : \A j \in keep : i <= j
                hi == CHOOSE i \in keep : \A j \in keep : i >= j
            IN SubSeq(s, lo, hi)

(***************************************************************************)
(* TOCGenerator.generate_anchor                                            *)
(***************************************************************************)
generate_anchor_swapped(title) ==
    LET a1 == Lower(title)
        a2 == DeleteNotIn(a1, "\\w\\s-")
        a3 == SubRuns(a2, "-", "-")
        a4 == SubRuns(a3, "\\s", "-")
    IN StripClass(a4, "-")

generate_anchor_nohyphen(title) ==
    LET a1 == Lower(title)
        a2 == DeleteNotIn(a1, "\\w\\s")
        a3 == SubRuns(a2, "\\s", "-")
        a4 == SubRuns(a3, "-", "-")
    IN StripClass(a4, "-")

generate_anchor(title) ==
    LET a1 == Lower(title)
        a2 == DeleteNotIn(a1, "\\w\\s-")
        a3 == SubRuns(a2, "\\s", "-")
        a4 == SubRuns(a3, "-", "-")
    IN StripClass(a4, "-")

(***************************************************************************)
(* TOCGenerator.header_pattern: ^(#{1,6})\s+(.+)$ with re.MULTILINE.        *)
(* Positions are 1-based; a match attempt at p succeeds or fails as the    *)
(* backtracking matcher does: the run of '#' must be the whole run (the    *)
(* character after it must be whitespace), \s+ takes the longest run of    *)
(* whitespace, line breaks included, that still leaves one character which *)
(* is not a line break for (.+), and (.+) runs to the end of that line.    *)
(***************************************************************************)
MinOf(S) == CHOOSE x \in S : \A y \in S : x <= y

MaxOf(S) == CHOOSE x \in S : \A y \in S : x >= y

\* ^ under re.MULTILINE
LineStart(c, p) == p = 1 \/ c[p-1] = "\n"

\* length of the run of characters of the class starting at p
RunLen(c, p, cls) ==
    MinOf({n \in 0..(Len(c) - p + 1) : p + n > Len(c) \/ ~InClass(cls, c[p+n])})

\* index of the last character of the line holding position q ($ under re.MULTILINE)
LineEnd(c, q) == MinOf({e \in (q-1)..Len(c) : e = Len(c) \/ c[e+1] = "\n"})

NotFound == [ok |-> FALSE, level |-> 0, text |-> <<>>, end |-> 0]

header_pattern(c, p) ==
    LET k == RunLen(c, p, "#")
        w == RunLen(c, p + k, "\\s")
        js == {j \in 1..w : p + k + j <= Len(c) /\ c[p+k+j] # "\n"}
    IN IF LineStart(c, p) /\ k >= 1 /\ k <= 6 /\ js # {}
       THEN LET g == p + k + MaxOf(js)
            IN [ok |-> TRUE, level |-> k, text |-> SubSeq(c, g, LineEnd(c, g)),
                end |-> LineEnd(c, g)]
       ELSE NotFound

\* header_pattern.findall(content): the non-overlapping matches, left to right
RECURSIVE header_findall(_, _)
header_findall(c, p) ==
    LET starts == {i \in p..Len(c) : header_pattern(c, i).ok}
    IN IF starts = {} THEN <<>>
       ELSE LET m == header_pattern(c, MinOf(starts))
            IN <<m>> \o header_findall(c, m.end + 1)

(***************************************************************************)
(* TOCGenerator.extract_headers                                            *)
(***************************************************************************)
TocTitles ==
    { <<"t","a","b","l","e"," ","o","f"," ","c","o","n","t","e","n","t","s">>,
      <<"c","o","n","t","e","n","t","s">>,
      <<"t","o","c">> }

Header(m) ==
    LET title == StripClass(m.text, "\\s")
    IN [level |-> m.level, title |-> title, anchor |-> generate_anchor(title)]

IsTocHeader(m) == Lower(StripClass(m.text, "\\s")) \in TocTitles

extract_headers(content) ==
    LET matches == header_findall(content, 1)
        kept == SelectSeq(matches, LAMBDA m : ~IsTocHeader(m))
    IN [i \in 1..Len(kept) |-> Header(kept[i])]

(***************************************************************************)
(* TOCGenerator.generate_toc                                               *)
(***************************************************************************)
TocStart == <<"<","!","-","-"," ","T","O","C"," ","S","T","A","R","T"," ","-","-",">">>

TocHeading == <<"#","#"," ","T","a","b","l","e"," ","o","f"," ","C","o","n","t","e","n","t","s">>

TocEnd == <<"<","!","-","-"," ","T","O","C"," ","E","N","D"," ","-","-",">">>

\* "\n".join(lines)
RECURSIVE JoinLines(_)
JoinLines(lines) ==
    IF lines = <<>> THEN <<>>
    ELSE IF Len(lines) = 1 THEN lines[1]
    ELSE lines[1] \o <<"\n">> \o JoinLines(Tail(lines))

\* "  " * n
Indent(n) == [i \in 1..(2 * n) |-> " "]

toc_entry(h, min_level) ==
    Indent(h.level - min_level) \o <<"-"," ","[">> \o h.title \o <<"]","(","#">>
        \o h.anchor \o <<")">>

generate_toc_visible_baseline(headers, max_depth, min_depth) ==
    IF headers = <<>> THEN <<>>
    ELSE LET shown == SelectSeq(headers,
                        LAMBDA h : ~(h.level < min_depth \/ h.level > max_depth))
             min_level == IF shown = <<>> THEN 0
                          ELSE MinOf({shown[i].level : i \in DOMAIN shown})
         IN JoinLines(<<TocStart, TocHeading, <<>>>>
                      \o [i \in 1..Len(shown) |-> toc_entry(shown[i], min_level)]
                      \o << <<>>, TocEnd, <<>> >>)

generate_toc(headers, max_depth, min_depth) ==
    IF headers = <<>> THEN <<>>
    ELSE LET min_level == MinOf({headers[i].level : i \in DOMAIN headers})
             shown == SelectSeq(headers,
                        LAMBDA h : ~(h.level < min_depth \/ h.level > max_depth))
         IN JoinLines(<<TocStart, TocHeading, <<>>>>
                      \o [i \in 1..Len(shown) |-> toc_entry(shown[i], min_level)]
                      \o << <<>>, TocEnd, <<>> >>)

(***************************************************************************)
(* re.sub / Pattern.sub with a string replacement: the replacement is a    *)
(* template.  A backslash followed by n, t, r, f, a, b, v or a backslash   *)
(* is that escape; \g<0> is the whole match; any other \g, a digit (the    *)
(* patterns of the source have no groups), any other ASCII letter, and a   *)
(* backslash that ends the template, raise re.error; a backslash before    *)
(* any other character stays as it is.  (The octal forms \0 and \ddd are   *)
(* not modelled: no input below contains them.)                            *)
(***************************************************************************)
TemplateEscapes == {"n", "t", "r", "f", "a", "b", "v", "\\"}

EscapeChar(c) ==
    CASE c = "n" -> "\n"
      [] c = "t" -> "\t"
      [] c = "r" -> "\r"
      [] c = "f" -> "\f"
      [] c = "a" -> "<BEL>"
      [] c = "b" -> "<BS>"
      [] c = "v" -> "<VT>"
      [] c = "\\" -> "\\"

TemplateError == [ok |-> FALSE, text |-> <<>>]

RECURSIVE expand_template(_, _)
expand_template(t, whole) ==
    LET bs == {i \in DOMAIN t : t[i] = "\\"}
    IN IF bs = {} THEN [ok |-> TRUE, text |-> t]
       ELSE LET i == MinOf(bs)
                lit == SubSeq(t, 1, i - 1)
            IN IF i = Len(t) THEN TemplateError
               ELSE LET c == t[i+1]
                        isG0 == /\ c = "g" /\ i + 4 <= Len(t)
                                /\ SubSeq(t, i + 2, i + 4) = <<"<", "0", ">">>
                        used == IF isG0 THEN i + 4 ELSE i + 1
                        rest == expand_template(SubSeq(t, used + 1, Len(t)), whole)
                    IN IF (c = "g" /\ ~isG0) \/ c \in Digits
                          \/ (IsLetter(c) /\ c \notin TemplateEscapes /\ c # "g")
                       THEN TemplateError
                       ELSE IF ~rest.ok THEN TemplateError
                       ELSE [ok |-> TRUE,
                             text |-> lit
                                \o (IF isG0 THEN whole
                                    ELSE IF c \in TemplateEscapes THEN <<EscapeChar(c)>>
                                    ELSE <<"\\", c>>)
                                \o rest.text]

\* the literal pat occurs in c at position i (ignoring case when ci)
OccursAt(c, pat, i, ci) ==
    /\ i >= 1
    /\ i + Len(pat) - 1 <= Len(c)
    /\ \A k \in 1..Len(pat) :
          IF ci THEN LowerChar(c[i+k-1]) = LowerChar(pat[k]) ELSE c[i+k-1] = pat[k]

\* positions >= from where pat occurs
Occurrences(c, pat, from, ci) == {i \in from..Len(c) : OccursAt(c, pat, i, ci)}

(***************************************************************************)
(* TOCGenerator.existing_toc_pattern:                                      *)
(* <!-- TOC START -->.*?<!-- TOC END --> with re.DOTALL                    *)
(***************************************************************************)
NoSpan == [ok |-> FALSE, start |-> 0, end |-> 0]

\* existing_toc_pattern.search(content, from): the leftmost START that an END
\* follows, up to the nearest such END
existing_toc_pattern(c, from) ==
    LET ss == Occurrences(c, TocStart, from, FALSE)
    IN IF ss = {} THEN NoSpan
       ELSE LET st == MinOf(ss)
                es == Occurrences(c, TocEnd, st + Len(TocStart), FALSE)
            IN IF es = {} THEN NoSpan
               ELSE [ok |-> TRUE, start |-> st, end |-> MinOf(es) + Len(TocEnd) - 1]

\* existing_toc_pattern.sub(repl, content): every match is replaced
RECURSIVE existing_toc_sub(_, _, _)
existing_toc_sub(repl, c, from) ==
    LET m == existing_toc_pattern(c, from)
    IN IF ~m.ok THEN [ok |-> TRUE, text |-> SubSeq(c, from, Len(c))]
       ELSE LET r == expand_template(repl, SubSeq(c, m.start, m.end))
                rest == existing_toc_sub(repl, c, m.end + 1)
            IN IF ~r.ok \/ ~rest.ok THEN TemplateError
               ELSE [ok |-> TRUE,
                     text |-> SubSeq(c, from, m.start - 1) \o r.text \o rest.text]

\* re.compile(re.escape(insert_after), re.IGNORECASE).sub(repl, content, count=1)
insert_after_sub(insert_after, repl, c) ==
    LET i == MinOf(Occurrences(c, insert_after, 1, TRUE))
        r == expand_template(repl, SubSeq(c, i, i + Len(insert_after) - 1))
    IN IF ~r.ok THEN TemplateError
       ELSE [ok |-> TRUE,
             text |-> SubSeq(c, 1, i - 1) \o r.text
                        \o SubSeq(c, i + Len(insert_after), Len(c))]

(***************************************************************************)
(* TOCGenerator.update_file_toc.  The file is (content, mode): mode        *)
(* "noread" makes open(file_path, 'r') raise, "nowrite" makes              *)
(* open(file_path, 'w') raise.  An argument insert_after is a record:      *)
(* given = FALSE is None.  The result is the file content after the call,  *)
(* the return value, the messages printed and the branch taken.            *)
(***************************************************************************)
Outcome(content, result, printed, branch) ==
    [content |-> content, result |-> result, printed |-> printed, branch |-> branch]

\* lines 132-140: write back and return True, or the handler of the try block
WriteBack(content, mode, updated, message, branch) ==
    IF ~updated.ok THEN Outcome(content, FALSE, <<"error">>, branch)
    ELSE IF mode = "nowrite" THEN Outcome(content, FALSE, <<message, "error">>, branch)
    ELSE Outcome(updated.text, TRUE, <<message>>, branch)

update_file_toc_unchecked(content, mode, max_depth, min_depth, insert_after) ==
    IF mode = "noread" THEN Outcome(content, FALSE, <<"error">>, "none")
    ELSE LET headers == extract_headers(content)
             new_toc == generate_toc(headers, max_depth, min_depth)
         IN IF existing_toc_pattern(content, 1).ok
            THEN WriteBack(content, mode, existing_toc_sub(new_toc, content, 1),
                           "updated", "replace")
            ELSE IF insert_after.given /\ insert_after.text # <<>>
            THEN IF Occurrences(content, insert_after.text, 1, TRUE) # {}
                 THEN WriteBack(content, mode,
                                insert_after_sub(insert_after.text,
                                    insert_after.text \o <<"\n", "\n">> \o new_toc, content),
                                "added", "insert_after")
                 ELSE WriteBack(content, mode,
                                [ok |-> TRUE, text |-> new_toc \o <<"\n">> \o content],
                                "added", "insert_begin")
            ELSE WriteBack(content, mode,
                           [ok |-> TRUE, text |-> new_toc \o <<"\n">> \o content],
                           "added", "insert_begin")

update_file_toc(content, mode, max_depth, min_depth, insert_after) ==
    IF mode = "noread" THEN Outcome(content, FALSE, <<"error">>, "none")
    ELSE LET headers == extract_headers(content)
             new_toc == generate_toc(headers, max_depth, min_depth)
         IN IF headers = <<>> THEN Outcome(content, FALSE, <<"no_headers">>, "none")
            ELSE IF existing_toc_pattern(content, 1).ok
            THEN WriteBack(content, mode, existing_toc_sub(new_toc, content, 1),
                           "updated", "replace")
            ELSE IF insert_after.given /\ insert_after.text # <<>>
            THEN IF Occurrences(content, insert_after.text, 1, TRUE) # {}
                 THEN WriteBack(content, mode,
                                insert_after_sub(insert_after.text,
                                    insert_after.text \o <<"\n", "\n">> \o new_toc, content),
                                "added", "insert_after")
                 ELSE WriteBack(content, mode,
                                [ok |-> TRUE, text |-> new_toc \o <<"\n">> \o content],
                                "added", "insert_begin")
            ELSE WriteBack(content, mode,
                           [ok |-> TRUE, text |-> new_toc \o <<"\n">> \o content],
                           "added", "insert_begin")

(***************************************************************************)
(* Bounded inputs.                                                         *)
(***************************************************************************)
MaxTitleLen == 4

SeqsUpTo(S, n) == UNION {[1..k -> S] : k \in 0..n}

AnchorChars == {"A", "b", "1", "_", " ", "\t", "-", "!"}

HelloWorld == <<"H","e","l","l","o",","," ","W","o","r","l","d","!","!">>

AnchorTitles == SeqsUpTo(AnchorChars, MaxTitleLen) \cup {HelloWorld}

(***************************************************************************)
(* Specification of the anchor generator alone: a title is slugged, and    *)
(* the slug is slugged again.                                              *)
(***************************************************************************)
AnchorInit ==
    /\ a_title \in AnchorTitles
    /\ a_anchor = <<>>
    /\ a_anchor2 = <<>>
    /\ a_pc = "start"

AnchorOnce ==
    /\ a_pc = "start"
    /\ a_anchor' = generate_anchor(a_title)
    /\ a_pc' = "once"
    /\ UNCHANGED <<a_title, a_anchor2, notAnchorVars>>

AnchorTwice ==
    /\ a_pc = "once"
    /\ a_anchor2' = generate_anchor(a_anchor)
    /\ a_pc' = "twice"
    /\ UNCHANGED <<a_title, a_anchor, notAnchorVars>>

AnchorNext == AnchorOnce \/ AnchorTwice

ExtractIdle == e_content = <<>> /\ e_headers = <<>> /\ e_pc = "idle"

TocIdle ==
    /\ t_headers = <<>>
    /\ t_max_depth = 0
    /\ t_min_depth = 0
    /\ t_toc = <<>>
    /\ t_pc = "idle"

FileIdle ==
    /\ f_content = <<>>
    /\ f_mode = "ok"
    /\ f_insert_after = [given |-> FALSE, text |-> <<>>]
    /\ f_log = <<>>

BatchIdle ==
    /\ b_kind = "dir"
    /\ b_files = <<>>
    /\ b_insert_after = [given |-> FALSE, text |-> <<>>]
    /\ b_pc = "idle"
    /\ b_next = 1
    /\ total_count = 0
    /\ success_count = 0
    /\ b_calls = <<>>
    /\ b_printed = <<>>
    /\ b_exit = 0

StatsIdle ==
    /\ s_quick = <<>>
    /\ s_guides = <<>>
    /\ s_readme = <<>>
    /\ s_readme_mode = "ok"
    /\ s_pc = "idle"
    /\ s_printed = <<>>

InitAnchor == AnchorInit /\ ExtractIdle /\ TocIdle /\ FileIdle /\ BatchIdle /\ StatsIdle

SpecAnchor == InitAnchor /\ [][AnchorNext]_vars

(***************************************************************************)
(* Specification of the header extractor alone.                            *)
(***************************************************************************)
MaxContentLen == 5

ExtractChars == {"#", " ", "\n", "a"}

ExtractSamples ==
    { <<"#"," ","T","O","C">>,
      <<"#","#"," ","C","o","n","t","e","n","t","s"," ","\n","#"," ","a">>,
      <<"#"," ","T","a","b","l","e"," ","o","f"," ","C","o","n","t","e","n","t","s">>,
      <<"#","\t","a"," ","b","\t","\n","#","#","#","#","#","#"," ","c">>,
      <<"#","#","#","#","#","#","#"," ","a">>,
      <<"#","\n","#","#"," ","b">>,
      <<"#"," ","a","\r","\n","#"," ","b">> }

ExtractContents == SeqsUpTo(ExtractChars, MaxContentLen) \cup ExtractSamples

AnchorIdle == a_title = <<>> /\ a_anchor = <<>> /\ a_anchor2 = <<>> /\ a_pc = "idle"

ExtractInit ==
    /\ e_content \in ExtractContents
    /\ e_headers = <<>>
    /\ e_pc = "start"

ExtractHeaders ==
    /\ e_pc = "start"
    /\ e_headers' = extract_headers(e_content)
    /\ e_pc' = "done"
    /\ UNCHANGED <<e_content, notExtractVars>>

ExtractNext == ExtractHeaders

InitExtract == ExtractInit /\ AnchorIdle /\ TocIdle /\ FileIdle /\ BatchIdle /\ StatsIdle

SpecExtract == InitExtract /\ [][ExtractNext]_vars

(***************************************************************************)
(* Specification of the renderer alone: any header sequence, as            *)
(* extract_headers builds its entries, and any depth window.               *)
(***************************************************************************)
MaxHeaders == 2

MaxLevel == 6

TocTitleSamples == { <<"a">>, <<"B"," ","c">> }

TocHeaderSet ==
    {[level |-> l, title |-> t, anchor |-> generate_anchor(t)] :
        l \in 1..MaxLevel, t \in TocTitleSamples}

DepthSamples == {1, 2, 3, 6}

TocInit ==
    /\ t_headers \in SeqsUpTo(TocHeaderSet, MaxHeaders)
    /\ t_max_depth \in DepthSamples
    /\ t_min_depth \in DepthSamples
    /\ t_toc = <<>>
    /\ t_pc = "start"

GenerateToc ==
    /\ t_pc = "start"
    /\ t_toc' = generate_toc(t_headers, t_max_depth, t_min_depth)
    /\ t_pc' = "done"
    /\ UNCHANGED <<t_headers, t_max_depth, t_min_depth, notTocVars>>

TocNext == GenerateToc

InitToc == TocInit /\ AnchorIdle /\ ExtractIdle /\ FileIdle /\ BatchIdle /\ StatsIdle

SpecToc == InitToc /\ [][TocNext]_vars

(***************************************************************************)
(* Specification of the file updater: one markdown file, on which          *)
(* update_file_toc is called again and again (the tool run repeatedly on   *)
(* the file with the same --insert-after and any depth window).  The file  *)
(* is any sequence of at most MaxLines of the sample lines.                *)
(***************************************************************************)
MaxLines == 2

MaxCalls == 2

SampleLines ==
    { <<>>,
      <<"#"," ","X">>,
      <<"#","#"," ","b">>,
      <<"x">>,
      <<"#"," ","t","o","c">>,
      <<"#"," ","<","!","-","-"," ","T","O","C"," ","E","N","D"," ","-","-",">"," ","<","!","-","-"," ","T","O","C"," ","S","T","A","R","T"," ","-","-",">">>,
      <<"<","!","-","-"," ","T","O","C"," ","S","T","A","R","T"," ","-","-",">">>,
      <<"<","!","-","-"," ","T","O","C"," ","E","N","D"," ","-","-",">">>,
      <<"#"," ","c","\\","n","d">>,
      <<"#"," ","\\","q">> }

FileContents == {JoinLines(ls) : ls \in SeqsUpTo(SampleLines, MaxLines) \ {<<>>}}

FileModes == {"ok", "noread", "nowrite"}

InsertAfterArgs ==
    { [given |-> FALSE, text |-> <<>>],
      [given |-> TRUE, text |-> <<>>],
      [given |-> TRUE, text |-> <<"x">>],
      [given |-> TRUE, text |-> <<"z">>] }

\* (max_depth, min_depth)
DepthArgs == { <<6, 1>>, <<2, 2>> }

FileInit ==
    /\ f_content \in FileContents
    /\ f_mode \in FileModes
    /\ f_insert_after \in InsertAfterArgs
    /\ f_log = <<>>

UpdateFileToc ==
    /\ Len(f_log) < MaxCalls
    /\ \E d \in DepthArgs :
        \E r \in {update_file_toc(f_content, f_mode, d[1], d[2], f_insert_after)} :
             /\ f_content' = r.content
             /\ f_log' = Append(f_log,
                    [max_depth |-> d[1], min_depth |-> d[2], before |-> f_content,
                     after |-> r.content, result |-> r.result, printed |-> r.printed,
                     branch |-> r.branch])
    /\ UNCHANGED <<f_mode, f_insert_after, notFileVars>>

FileNext == UpdateFileToc

InitFile == FileInit /\ AnchorIdle /\ ExtractIdle /\ TocIdle /\ BatchIdle /\ StatsIdle

SpecFile == InitFile /\ [][FileNext]_vars

(***************************************************************************)
(* main() of generate-toc.py without --update-readme, with the default     *)
(* depth window.  b_kind says what the path is: "missing", "notmd" (a file *)
(* that is not *.md), "file" (one markdown file) or "dir"; b_files are the *)
(* markdown files the path names (md_files), each a content and a mode.    *)
(***************************************************************************)
MaxFiles == 3

DefaultMaxDepth == 6

DefaultMinDepth == 1

BatchContents ==
    { <<"#"," ","X">>,
      <<"x">>,
      TocStart \o TocEnd \o <<"\n","#"," ","\\","q">> }

BatchFileSet == {[content |-> c, mode |-> m] : c \in BatchContents, m \in FileModes}

BatchInsertAfterArgs ==
    { [given |-> FALSE, text |-> <<>>], [given |-> TRUE, text |-> <<"x">>] }

BatchInit ==
    /\ b_kind \in {"missing", "notmd", "file", "dir"}
    /\ b_files \in SeqsUpTo(BatchFileSet, MaxFiles)
    /\ b_kind \in {"missing", "notmd"} => b_files = <<>>
    /\ b_kind = "file" => Len(b_files) = 1
    /\ b_insert_after \in BatchInsertAfterArgs
    /\ b_pc = "start"
    /\ b_next = 1
    /\ total_count = 0
    /\ success_count = 0
    /\ b_calls = <<>>
    /\ b_printed = <<>>
    /\ b_exit = 0

\* lines 285-287 and 303-305: the path does not exist, or is a file that is not *.md
MainBadPath ==
    /\ b_pc = "start"
    /\ b_kind \in {"missing", "notmd"}
    /\ b_printed' = Append(b_printed, [kind |-> "bad_path"])
    /\ b_exit' = 1
    /\ b_pc' = "exit"
    /\ UNCHANGED <<b_kind, b_files, b_insert_after, b_next, total_count, success_count,
                   b_calls, notBatchVars>>

\* lines 314-320 (and 295 for a single file): count the files
MainCount ==
    /\ b_pc = "start"
    /\ b_kind \in {"file", "dir"}
    /\ total_count' = Len(b_files)
    /\ IF Len(b_files) = 0
       THEN /\ b_printed' = Append(b_printed, [kind |-> "no_files"])
            /\ b_pc' = "done"
       ELSE /\ b_printed' = IF b_kind = "dir"
                            THEN Append(b_printed, [kind |-> "found", n |-> Len(b_files)])
                            ELSE b_printed
            /\ b_pc' = "loop"
    /\ UNCHANGED <<b_kind, b_files, b_insert_after, b_next, success_count, b_calls,
                   b_exit, notBatchVars>>

\* lines 322-329 (296-302 for a single file), with a break on the first failure
ProcessFileOrStop ==
    /\ b_pc = "loop"
    /\ b_next <= total_count
    /\ \E r \in {update_file_toc(b_files[b_next].content, b_files[b_next].mode,
                                  DefaultMaxDepth, DefaultMinDepth, b_insert_after)} :
          /\ b_files' = [b_files EXCEPT ![b_next].content = r.content]
          /\ success_count' = IF r.result THEN success_count + 1 ELSE success_count
          /\ b_next' = IF r.result THEN b_next + 1 ELSE total_count + 1
          /\ b_calls' = Append(b_calls,
                [index |-> b_next, before |-> b_files[b_next].content,
                 mode |-> b_files[b_next].mode, result |-> r.result])
          /\ b_printed' = b_printed
                \o [i \in 1..Len(r.printed) |-> [kind |-> r.printed[i], file |-> b_next]]
    /\ UNCHANGED <<b_kind, b_insert_after, b_pc, total_count, b_exit, notBatchVars>>

\* lines 322-329 (296-302 for a single file): one iteration of the loop
ProcessFile ==
    /\ b_pc = "loop"
    /\ b_next <= total_count
    /\ \E r \in {update_file_toc(b_files[b_next].content, b_files[b_next].mode,
                                  DefaultMaxDepth, DefaultMinDepth, b_insert_after)} :
          /\ b_files' = [b_files EXCEPT ![b_next].content = r.content]
          /\ success_count' = IF r.result THEN success_count + 1 ELSE success_count
          /\ b_next' = b_next + 1
          /\ b_calls' = Append(b_calls,
                [index |-> b_next, before |-> b_files[b_next].content,
                 mode |-> b_files[b_next].mode, result |-> r.result])
          /\ b_printed' = b_printed
                \o [i \in 1..Len(r.printed) |-> [kind |-> r.printed[i], file |-> b_next]]
    /\ UNCHANGED <<b_kind, b_insert_after, b_pc, total_count, b_exit, notBatchVars>>

\* lines 331-340
MainSummary ==
    /\ b_pc = "loop"
    /\ b_next > total_count
    /\ b_printed' = b_printed \o
          << [kind |-> "summary", processed |-> success_count, total |-> total_count],
             [kind |-> IF success_count = total_count THEN "all_ok"
                       ELSE IF success_count > 0 THEN "some_issues"
                       ELSE "none_ok"] >>
    /\ b_pc' = "done"
    /\ UNCHANGED <<b_kind, b_files, b_insert_after, b_next, total_count, success_count,
                   b_calls, b_exit, notBatchVars>>

BatchNext == MainBadPath \/ MainCount \/ ProcessFile \/ MainSummary

InitBatch == BatchInit /\ AnchorIdle /\ ExtractIdle /\ TocIdle /\ FileIdle /\ StatsIdle

SpecBatch == InitBatch /\ [][BatchNext]_vars

(***************************************************************************)
(* update-stats.py                                                         *)
(***************************************************************************)
\* re.findall(r'^##\s+', content, re.MULTILINE), from position p on: how many matches
RECURSIVE sections_findall(_, _)
sections_findall(c, p) ==
    LET starts == {i \in p..(Len(c) - 2) :
                      /\ LineStart(c, i)
                      /\ c[i] = "#" /\ c[i+1] = "#"
                      /\ IsSpace(c[i+2])}
    IN IF starts = {} THEN 0
       ELSE LET i == MinOf(starts)
            IN 1 + sections_findall(c, i + 2 + RunLen(c, i + 2, "\\s"))

\* count_issues_in_file, given the content read
issues_in_content(c) ==
    IF sections_findall(c, 1) > 0 THEN sections_findall(c, 1) - 1 ELSE 0

\* count_quick_fixes / count_detailed_guides: the total over the files of a directory
RECURSIVE count_dir(_)
count_dir(files) ==
    IF files = <<>> THEN 0
    ELSE issues_in_content(Head(files).content) + count_dir(Tail(files))

\* an unreadable file makes count_issues_in_file raise, and nothing catches it
Unreadable(files) == \E i \in DOMAIN files : files[i].mode = "noread"

\* str(n) for n >= 0
DigitChars == <<"0","1","2","3","4","5","6","7","8","9">>

RECURSIVE IntToStr(_)
IntToStr(n) ==
    IF n < 10 THEN <<DigitChars[n + 1]>>
    ELSE IntToStr(n \div 10) \o <<DigitChars[(n % 10) + 1]>>

\* %m and %d of strftime: two digits
Pad2(n) == IF n < 10 THEN <<"0">> \o IntToStr(n) ELSE IntToStr(n)

\* datetime.now().strftime('%Y-%m-%d'), for a date [y, m, d] of four-digit year
strftime(date) == IntToStr(date.y) \o <<"-">> \o Pad2(date.m) \o <<"-">> \o Pad2(date.d)

StatsHeading == <<"#","#"," ","S","t","a","t","i","s","t","i","c","s","\n","\n">>

TotalLabel == <<"-"," ","*","*","T","o","t","a","l"," ","I","s","s","u","e","s",":","*","*"," ">>

QuickLabel == <<"-"," ","*","*","Q","u","i","c","k"," ","F","i","x","e","s",":","*","*"," ">>

GuidesLabel == <<"-"," ","*","*","D","e","t","a","i","l","e","d"," ","G","u","i","d","e","s",":","*","*"," ">>

UpdatedLabel == <<"-"," ","*","*","L","a","s","t"," ","U","p","d","a","t","e","d",":","*","*"," ">>

new_stats(total_issues, quick_fixes, detailed_guides, last_updated) ==
    StatsHeading \o TotalLabel \o IntToStr(total_issues) \o <<"\n">>
        \o QuickLabel \o IntToStr(quick_fixes) \o <<"\n">>
        \o GuidesLabel \o IntToStr(detailed_guides) \o <<"\n">>
        \o UpdatedLabel \o last_updated \o <<"\n">>

SectionBreak == <<"\n", "#", "#">>

\* stats_pattern, r'## Statistics\n\n(.*?)(?=\n##|\Z)' with re.DOTALL, searched from
\* position from: the heading, then as little as possible up to a "\n##" or the end
stats_pattern(c, from) ==
    LET ss == Occurrences(c, StatsHeading, from, FALSE)
    IN IF ss = {} THEN NoSpan
       ELSE LET st == MinOf(ss)
                g == st + Len(StatsHeading)
                stop == MinOf({j \in g..(Len(c) + 1) :
                                 j = Len(c) + 1 \/ OccursAt(c, SectionBreak, j, FALSE)})
            IN [ok |-> TRUE, start |-> st, end |-> stop - 1]

\* re.sub(stats_pattern, new_stats, content, flags=re.DOTALL)
RECURSIVE stats_sub(_, _, _)
stats_sub(repl, c, from) ==
    LET m == stats_pattern(c, from)
    IN IF ~m.ok THEN SubSeq(c, from, Len(c))
       ELSE SubSeq(c, from, m.start - 1)
              \o expand_template(repl, SubSeq(c, m.start, m.end)).text
              \o stats_sub(repl, c, m.end + 1)

\* content.split(sep)
RECURSIVE Split(_, _)
Split(c, sep) ==
    LET occ == Occurrences(c, sep, 1, FALSE)
    IN IF occ = {} THEN <<c>>
       ELSE <<SubSeq(c, 1, MinOf(occ) - 1)>>
              \o Split(SubSeq(c, MinOf(occ) + Len(sep), Len(c)), sep)

\* sep.join(parts)
RECURSIVE Join(_, _)
Join(parts, sep) ==
    IF parts = <<>> THEN <<>>
    ELSE IF Len(parts) = 1 THEN parts[1]
    ELSE parts[1] \o sep \o Join(Tail(parts), sep)

SectionSep == <<"\n", "#", "#", " ">>

\* str.lstrip('## '): drop the leading '#' and ' ' characters
LStripHashSpace(t) == SubSeq(t, 1 + RunLen(t, 1, "# "), Len(t))

\* lines 51-61: the new README content
new_content(content, stats) ==
    IF stats_pattern(content, 1).ok THEN stats_sub(stats, content, 1)
    ELSE LET sections == Split(content, SectionSep)
         IN IF Len(sections) > 1
            THEN Join(SubSeq(sections, 1, Len(sections) - 1)
                        \o <<LStripHashSpace(stats)>>
                        \o <<sections[Len(sections)]>>, SectionSep)
            ELSE content \o <<"\n">> \o stats

\* update_readme_stats on the day today: the README written and the lines printed,
\* or the uncaught exception of a file that does not open
Published(readme, printed, pc) == [readme |-> readme, printed |-> printed, pc |-> pc]

update_readme_stats_title_counted(quick, guides, readme, readme_mode, printed, today) ==
    IF Unreadable(quick) \/ Unreadable(guides) \/ readme_mode = "noread"
    THEN Published(readme, printed, "crashed")
    ELSE LET quick_fixes == count_dir(quick) + Len(quick)
             detailed_guides == count_dir(guides)
             total_issues == quick_fixes + detailed_guides
             last_updated == strftime(today)
         IN Published(
              new_content(readme,
                  new_stats(total_issues, quick_fixes, detailed_guides, last_updated)),
              <<[total_issues |-> total_issues, quick_fixes |-> quick_fixes,
               detailed_guides |-> detailed_guides, last_updated |-> last_updated,
               today |-> today]>>,
              "ready")

update_readme_stats(quick, guides, readme, readme_mode, printed, today) ==
    IF Unreadable(quick) \/ Unreadable(guides) \/ readme_mode = "noread"
    THEN Published(readme, printed, "crashed")
    ELSE LET quick_fixes == count_dir(quick)
             detailed_guides == count_dir(guides)
             total_issues == quick_fixes + detailed_guides
             last_updated == strftime(today)
         IN Published(
              new_content(readme,
                  new_stats(total_issues, quick_fixes, detailed_guides, last_updated)),
              <<[total_issues |-> total_issues, quick_fixes |-> quick_fixes,
               detailed_guides |-> detailed_guides, last_updated |-> last_updated,
               today |-> today]>>,
              "ready")

(***************************************************************************)
(* Specification of update-stats.py: the script is run again and again on  *)
(* fixed directories; the date of each run is the day it runs.             *)
(***************************************************************************)
MaxStatFiles == 2

StatContents ==
    { <<"#"," ","T","\n","#","#"," ","a","\n","#","#"," ","b","\n">>,
      <<"#","#","\n","#","#","\t","c","\n","#","#"," ","d">>,
      <<"x","\n","#","#","#"," ","e","\n","#","#","f">>,
      <<"#","#"," ","g","\n","#","#">> }

StatFileSet ==
    {[content |-> c, mode |-> "ok"] : c \in StatContents}
        \cup {[content |-> <<"#","#"," ","u">>, mode |-> "noread"]}

ReadmeSamples ==
    { <<"#"," ","R">>,
      <<"#"," ","R","\n","#","#"," ","S","t","a","t","i","s","t","i","c","s","\n","\n","o","l","d","\n","#","#"," ","N","e","x","t","\n">>,
      <<"#"," ","R","\n","#","#"," ","A","\n","#","#"," ","B">> }

Dates == { [y |-> 2026, m |-> 11, d |-> 1], [y |-> 1999, m |-> 12, d |-> 31] }

StatsInit ==
    /\ s_quick \in SeqsUpTo(StatFileSet, MaxStatFiles)
    /\ s_guides \in SeqsUpTo(StatFileSet, MaxStatFiles)
    /\ s_readme \in ReadmeSamples
    /\ s_readme_mode \in {"ok", "noread"}
    /\ s_pc = "ready"
    /\ s_printed = <<>>

UpdateReadmeStats ==
    /\ s_pc = "ready"
    /\ \E today \in Dates :
        \E r \in {update_readme_stats(s_quick, s_guides, s_readme, s_readme_mode,
                                      s_printed, today)} :
          /\ s_readme' = r.readme
          /\ s_printed' = r.printed
          /\ s_pc' = r.pc
    /\ UNCHANGED <<s_quick, s_guides, s_readme_mode, notStatsVars>>

StatsNext == UpdateReadmeStats

InitStats == StatsInit /\ AnchorIdle /\ ExtractIdle /\ TocIdle /\ FileIdle /\ BatchIdle

SpecStats == InitStats /\ [][StatsNext]_vars

(***************************************************************************)
(* Properties of the anchor generator.                                     *)
(***************************************************************************)
HelloWorldAnchor == <<"h","e","l","l","o","-","w","o","r","l","d">>

\* C2: anchor generation is idempotent, generate_anchor(generate_anchor(t)) =
\* generate_anchor(t) for every title t, and 'Hello, World!!' maps to
\* 'hello-world', which maps to itself.
C2_AnchorIdempotent ==
    /\ a_pc = "twice" => a_anchor2 = a_anchor
    /\ (a_pc \in {"once", "twice"} /\ a_title = HelloWorld) => a_anchor = HelloWorldAnchor

C2_Witness ==
    /\ a_pc = "twice"
    /\ a_title = <<" ", "A", "!", "-">>
    /\ a_anchor = <<"a">>
    /\ a_anchor2 = <<"a">>

\* The words of a title: the maximal runs of letters, digits and underscores,
\* lowercased, where whitespace (and, when hyphenSeparates, the hyphen) separates two
\* words and every other character is dropped without separating anything.
RECURSIVE WordsOf(_, _, _)
WordsOf(t, cur, hyphenSeparates) ==
    IF t = <<>> THEN (IF cur = <<>> THEN <<>> ELSE <<cur>>)
    ELSE IF IsWord(Head(t))
         THEN WordsOf(Tail(t), Append(cur, LowerChar(Head(t))), hyphenSeparates)
    ELSE IF IsSpace(Head(t)) \/ (hyphenSeparates /\ IsHyphen(Head(t)))
         THEN (IF cur = <<>> THEN <<>> ELSE <<cur>>)
              \o WordsOf(Tail(t), <<>>, hyphenSeparates)
    ELSE WordsOf(Tail(t), cur, hyphenSeparates)

RECURSIVE JoinHyphen(_)
JoinHyphen(ws) ==
    IF ws = <<>> THEN <<>>
    ELSE IF Len(ws) = 1 THEN ws[1]
    ELSE ws[1] \o <<"-">> \o JoinHyphen(Tail(ws))

\* C7 as stated: the anchor is the title lowercased, with every character that is not
\* a letter, digit, underscore or whitespace removed (hyphens too), whitespace runs
\* turned into one hyphen, hyphen runs collapsed, leading and trailing hyphens stripped.
C7_Original ==
    a_pc \in {"once", "twice"} => a_anchor = JoinHyphen(WordsOf(a_title, <<>>, FALSE))

\* C7 amended: hyphens of the title are kept by the removal step, so the anchor is the
\* lowercased words of the title joined by single hyphens, where whitespace and hyphens
\* both separate words; it is the empty string when the title has no letter, digit or
\* underscore.
C7_AnchorRule ==
    a_pc \in {"once", "twice"} =>
        /\ a_anchor = JoinHyphen(WordsOf(a_title, <<>>, TRUE))
        /\ (\A i \in DOMAIN a_title : ~IsWord(a_title[i])) => a_anchor = <<>>

C7_Witness ==
    /\ a_pc = "once"
    /\ a_title = <<"A", "-", "!", "b">>
    /\ a_anchor = <<"a", "-", "b">>

(***************************************************************************)
(* Properties of the header extractor.                                     *)
(***************************************************************************)
RECURSIVE SplitLines(_)
SplitLines(c) ==
    LET brk == {i \in DOMAIN c : c[i] = "\n"}
    IN IF brk = {} THEN <<c>>
       ELSE <<SubSeq(c, 1, MinOf(brk) - 1)>> \o SplitLines(SubSeq(c, MinOf(brk) + 1, Len(c)))

\* A header line: 1 to 6 '#', one or more blanks, then text, all on the one line.
IsHeaderLine(line) ==
    LET k == RunLen(line, 1, "#")
    IN k >= 1 /\ k <= 6 /\ Len(line) >= k + 2 /\ IsSpace(line[k+1])

LineEntry(line) ==
    <<RunLen(line, 1, "#"),
      StripClass(SubSeq(line, RunLen(line, 1, "#") + 1, Len(line)), "\\s")>>

HeaderEntries(c) ==
    LET hl == SelectSeq(SplitLines(c),
                LAMBDA l : IsHeaderLine(l) /\ Lower(LineEntry(l)[2]) \notin TocTitles)
    IN [i \in 1..Len(hl) |-> LineEntry(hl[i])]

\* C4: extract_headers returns, in document order, exactly one (level, title) for each
\* single line made of 1 to 6 '#', blanks and text (title = rest of that same line,
\* trimmed), except table-of-contents labels, and nothing from any other text.
C4_Original ==
    e_pc = "done" =>
        [i \in 1..Len(e_headers) |-> <<e_headers[i].level, e_headers[i].title>>]
            = HeaderEntries(e_content)

(***************************************************************************)
(* Properties of the renderer.                                             *)
(***************************************************************************)
InWindow(h) == h.level >= t_min_depth /\ h.level <= t_max_depth

\* the entry lines of a rendered block: what lies between the three opening lines
\* and the three closing lines
EntryLines(toc) == SubSeq(SplitLines(toc), 4, Len(SplitLines(toc)) - 3)

LinkOf(h) == <<"-"," ","[">> \o h.title \o <<"]","(","#">> \o h.anchor \o <<")">>

\* C3: the rendered block has one entry line for exactly the headers whose level lies
\* in [min_depth, max_depth], in input order, and each is indented by two spaces times
\* (its level minus the minimum level among all headers, filtered-out ones included).
C3_DepthFilterIndent ==
    (t_pc = "done" /\ t_headers # <<>>) =>
        LET shown == SelectSeq(t_headers, InWindow)
            base == MinOf({t_headers[i].level : i \in DOMAIN t_headers})
            entries == EntryLines(t_toc)
        IN /\ Len(entries) = Len(shown)
           /\ \A i \in DOMAIN entries :
                 LET n == RunLen(entries[i], 1, " ")
                 IN /\ n = 2 * (shown[i].level - base)
                    /\ SubSeq(entries[i], n + 1, Len(entries[i])) = LinkOf(shown[i])

\* a level-1 header filtered out by min_depth = 2 still sets the baseline: the level-3
\* entry is indented by four spaces
C3_Witness ==
    /\ t_pc = "done"
    /\ t_min_depth = 2
    /\ t_max_depth = 6
    /\ Len(t_headers) = 2
    /\ t_headers[1].level = 1
    /\ t_headers[2].level = 3
    /\ Len(EntryLines(t_toc)) = 1
    /\ RunLen(EntryLines(t_toc)[1], 1, " ") = 4

(***************************************************************************)
(* Properties of the file updater.                                         *)
(***************************************************************************)
\* the number of sentinel-delimited blocks of a text: the matches of
\* existing_toc_pattern, left to right
RECURSIVE BlockCount(_, _)
BlockCount(c, from) ==
    IF existing_toc_pattern(c, from).ok
    THEN 1 + BlockCount(c, existing_toc_pattern(c, from).end + 1)
    ELSE 0

HasHeaders(c) == extract_headers(c) # <<>>

\* the first call found a file with headers and no block, and inserted one
InsertedFirst ==
    /\ f_log # <<>>
    /\ HasHeaders(f_log[1].before)
    /\ BlockCount(f_log[1].before, 1) = 0
    /\ f_log[1].result
    /\ f_log[1].branch \in {"insert_after", "insert_begin"}

\* C1: for a file with at least one header and no TOC block, after the inserting call
\* and after every later call the file holds exactly one TOC START / TOC END block,
\* and every later call takes the has-TOC (replace) branch.
C1_Original ==
    InsertedFirst =>
        \A i \in DOMAIN f_log :
            /\ BlockCount(f_log[i].after, 1) = 1
            /\ i >= 2 => f_log[i].branch = "replace"

\* C5: a call on a file whose content yields zero headers leaves the content as it
\* was, prints the 'no headers found' warning and nothing else, and returns False.
C5_NoHeadersNoWrite ==
    \A i \in DOMAIN f_log :
        (f_mode # "noread" /\ ~HasHeaders(f_log[i].before)) =>
            /\ f_log[i].after = f_log[i].before
            /\ f_log[i].result = FALSE
            /\ f_log[i].printed = <<"no_headers">>
            /\ i = Len(f_log) => f_content = f_log[i].before

\* a file whose only header is a table-of-contents label
C5_Witness ==
    /\ f_mode = "ok"
    /\ Len(f_log) = 2
    /\ f_log[2].before = <<"x", "\n", "#", " ", "t", "o", "c">>
    /\ f_log[2].printed = <<"no_headers">>
    /\ f_content = <<"x", "\n", "#", " ", "t", "o", "c">>

\* the block update_file_toc renders for a call
RenderedBlock(e) == generate_toc(extract_headers(e.before), e.max_depth, e.min_depth)

Supplied == f_insert_after.given /\ f_insert_after.text # <<>>

\* C8: the inserting call writes the original content with the rendered block placed
\* right after the first case-insensitive occurrence of the insert-after string and a
\* blank line, or, without such an occurrence, the rendered block followed by the
\* original content; the original content is all there, unchanged and in order.
C8_Original ==
    InsertedFirst =>
        LET before == f_log[1].before
            occ == IF Supplied THEN Occurrences(before, f_insert_after.text, 1, TRUE) ELSE {}
        IN IF occ # {}
           THEN LET cut == MinOf(occ) + Len(f_insert_after.text) - 1
                IN f_log[1].after =
                     SubSeq(before, 1, cut) \o <<"\n", "\n">> \o RenderedBlock(f_log[1])
                        \o SubSeq(before, cut + 1, Len(before))
           ELSE f_log[1].after = RenderedBlock(f_log[1]) \o <<"\n">> \o before

\* C10: a call on a file that holds the block an earlier call wrote, with the same
\* depth window and unchanged headers, writes back exactly the content it read.
C10_Original ==
    \A i \in DOMAIN f_log :
        (/\ i >= 2
         /\ f_log[i-1].result
         /\ f_log[i].max_depth = f_log[i-1].max_depth
         /\ f_log[i].min_depth = f_log[i-1].min_depth
         /\ extract_headers(f_log[i].before) = extract_headers(f_log[i-1].before))
        => f_log[i].after = f_log[i].before

(***************************************************************************)
(* Properties of a batch run.                                              *)
(***************************************************************************)
Summaries == SelectSeq(b_printed, LAMBDA m : m.kind = "summary")

DirRunDone == b_pc = "done" /\ b_kind = "dir" /\ Len(b_files) >= 1

AttemptedOnceInOrder ==
    /\ Len(b_calls) = Len(b_files)
    /\ \A k \in DOMAIN b_calls : b_calls[k].index = k

\* the files that cannot be opened for reading or for writing
CannotOpen == {i \in DOMAIN b_files : b_files[i].mode # "ok"}

\* C6: in a directory run over N files of which M fail to open, every file is
\* attempted exactly once, in order, whatever happened to the files before it, and the
\* summary reports exactly N - M successes out of N.
C6_Original ==
    DirRunDone =>
        /\ AttemptedOnceInOrder
        /\ b_exit = 0
        /\ Summaries = << [kind |-> "summary",
                           processed |-> Len(b_files) - Cardinality(CannotOpen),
                           total |-> Len(b_files)] >>

\* the replacement template update_file_toc builds for a content raises re.error
SubstitutionRaises(c) ==
    LET toc == generate_toc(extract_headers(c), DefaultMaxDepth, DefaultMinDepth)
    IN IF BlockCount(c, 1) > 0 THEN ~expand_template(toc, <<>>).ok
       ELSE /\ b_insert_after.given
            /\ b_insert_after.text # <<>>
            /\ Occurrences(c, b_insert_after.text, 1, TRUE) # {}
            /\ ~expand_template(b_insert_after.text \o <<"\n", "\n">> \o toc, <<>>).ok

\* the calls that cannot succeed: the file does not open, has no header, or its
\* substitution raises
Unsuccessful ==
    {k \in DOMAIN b_calls :
        \/ b_calls[k].mode # "ok"
        \/ ~HasHeaders(b_calls[k].before)
        \/ SubstitutionRaises(b_calls[k].before)}

\* C6 amended: every file is attempted exactly once, in order, the run ends with exit
\* status 0, and the summary reports N minus the files that failed to open, that
\* yielded zero headers or whose substitution raised, out of N.
C6_BatchIsolation ==
    DirRunDone =>
        /\ AttemptedOnceInOrder
        /\ b_exit = 0
        /\ Summaries = << [kind |-> "summary",
                           processed |-> Len(b_files) - Cardinality(Unsuccessful),
                           total |-> Len(b_files)] >>

\* an unreadable file, then a file without headers, then a file that is updated
C6_Witness ==
    /\ DirRunDone
    /\ Len(b_files) = 3
    /\ b_files[1].mode = "noread"
    /\ b_files[2] = [content |-> <<"x">>, mode |-> "ok"]
    /\ b_calls[3].before = <<"#", " ", "X">>
    /\ b_calls[3].result
    /\ BlockCount(b_files[3].content, 1) = 1
    /\ Summaries = << [kind |-> "summary", processed |-> 1, total |-> 3] >>

(***************************************************************************)
(* C9: the statistics published by update-stats.py                         *)
(***************************************************************************)
\* a run has completed: its four lines are printed and README.md is rewritten
StatsRan == s_pc = "ready" /\ s_printed # <<>>

LastRun == s_printed[1]

\* line i of lines begins with "## ", the two hashes and one blank
PrefixLine(lines, i) ==
    /\ Len(lines[i]) >= 3
    /\ lines[i][1] = "#" /\ lines[i][2] = "#" /\ lines[i][3] = " "

\* line i of lines begins with "##" followed by a whitespace character, which for the
\* bare line "##" is the line break that ends it
SectionLine(lines, i) ==
    /\ Len(lines[i]) >= 2
    /\ lines[i][1] = "#" /\ lines[i][2] = "#"
    /\ IF Len(lines[i]) >= 3 THEN IsSpace(lines[i][3]) ELSE i < Len(lines)

\* what one file contributes: its counted lines minus one, or 0 when it has none
IssuesOf(c, literal) ==
    LET lines == SplitLines(c)
        n == Cardinality({i \in DOMAIN lines :
                 IF literal THEN PrefixLine(lines, i) ELSE SectionLine(lines, i)})
    IN IF n = 0 THEN 0 ELSE n - 1

RECURSIVE DirIssues(_, _)
DirIssues(files, literal) ==
    IF files = <<>> THEN 0
    ELSE IssuesOf(files[1].content, literal) + DirIssues(Tail(files), literal)

DigitVal(ch) == CHOOSE v \in 0..9 : DigitChars[v + 1] = ch

RECURSIVE NumVal(_)
NumVal(t) ==
    IF t = <<>> THEN 0 ELSE 10 * NumVal(SubSeq(t, 1, Len(t) - 1)) + DigitVal(t[Len(t)])

\* t is date written as YYYY-MM-DD
IsoDate(t, date) ==
    /\ Len(t) = 10
    /\ t[5] = "-" /\ t[8] = "-"
    /\ \A i \in (1..10) \ {5, 8} : \E v \in 0..9 : DigitChars[v + 1] = t[i]
    /\ NumVal(SubSeq(t, 1, 4)) = date.y
    /\ NumVal(SubSeq(t, 6, 7)) = date.m
    /\ NumVal(SubSeq(t, 9, 10)) = date.d

====
